---- MODULE Spec2Model ----
(***************************************************************************)
(* Model of the hexrod CNC converters:                                     *)
(*   src/hollowing.py       hollow-milling G-code generator (a script)     *)
(*   src/griff_generator.py grip turning generator (generate_turning)      *)
(*                                                                         *)
(* Fixed point.  Python floats are modelled by integers:                   *)
(*   positions along X          1 unit = 1 mm                              *)
(*   dimensions, radii, depths  1 unit = 0.001 mm                          *)
(*   mask factor                1 unit = 1/FAK                             *)
(*   z of a sample              dimension unit / FAK  (1e-6 mm)            *)
(*   X word of an emitted line  0.001 mm   (format .3f)                    *)
(*   Z word of an emitted line  0.0001 mm  (format .4f)                    *)
(* Comment lines and blank lines of the emitted program are left out of    *)
(* `lines`; every G/M word line is kept, in order, without its trailing    *)
(* comment, except the "-> land/end" tag of the closing move (line 190).   *)
(***************************************************************************)
EXTENDS Integers, Sequences, FiniteSets, TLC

VARIABLES
    \* ---- configuration of hollowing.py (module constants, lines 26-56)
    stations_mm,      \* line 127: <<position, dimension>> pairs
    x_total,          \* line 128
    TIP_SOLID_MM, BUTT_SOLID_MM, STEG_ABSTAND_MM, STEG_BREITE_MM, UEBERGANG_MM,
    SCHRITT_MM,       \* step resolution (both scripts)
    \* ---- run state of hollowing.py
    steg_positions,   \* line 130
    x,                \* loop variable of the sampling loop (both scripts)
    dim,              \* line 151: <<>> is None, <<d>> is the value d
    path,             \* line 147: sequence of <<x, z>>
    cutting,          \* line 179
    i,                \* position of `for x, z in path` (line 180)
    lines,            \* emitted program (both scripts)
    stdout, file,     \* lines 199-202: what was printed / written
    pc,
    \* ---- configuration and run state of griff_generator.py
    GRIFFTYP, GRIFF_LAENGE_MM, X_START_MM, ROHLING_RADIUS, ZIEL_RADIUS,
    RADIUS_TIP, RADIUS_BUTT,
    roughing_steps,   \* line 105: sequence of fixed radii, <<>> entry = contour
    pass,             \* index into roughing_steps (line 115)
    a_total           \* line 113

cfgvars == <<stations_mm, x_total, TIP_SOLID_MM, BUTT_SOLID_MM, STEG_ABSTAND_MM,
             STEG_BREITE_MM, UEBERGANG_MM, SCHRITT_MM>>
hollowvars == <<steg_positions, dim, path, cutting, i, stdout, file>>
griffcfg == <<GRIFFTYP, GRIFF_LAENGE_MM, X_START_MM, ROHLING_RADIUS, ZIEL_RADIUS,
              RADIUS_TIP, RADIUS_BUTT>>
griffvars == <<roughing_steps, pass, a_total>>
vars == <<cfgvars, hollowvars, griffcfg, griffvars, x, lines, pc>>

(***************************************************************************)
(* Bounds of the model                                                     *)
(***************************************************************************)
MaxTotal == 13      \* longest strip (mm) drawn in Init
MaxSamples == 4     \* longest free sample sequence of EmitSpec
MaxLines == 100     \* cap on len(lines) for a turning loop that never ends

\* cap on len(path) for a sampling loop that never ends (step 0); a loop that
\* ends appends at most MaxTotal + 1 samples
MaxPath == MaxTotal + 3

(***************************************************************************)
(* Program constants                                                       *)
(***************************************************************************)
WANDSTAERKE_MM == 400    \* 0.4 mm
Z_RAPID == 3000          \* 3.0 mm
FEED_RATE == 200
EPS == 10                \* 0.01 mm, the engagement threshold of line 181
FAK == 1000              \* scale of the mask factor (1.0)
FRAESER_RADIUS == 3000   \* 3.0 mm
FEED_CUT == 150
rotations_per_mm == 3

Min(a, b) == IF a < b THEN a ELSE b
Max(a, b) == IF a > b THEN a ELSE b
Abs(a) == IF a < 0 THEN -a ELSE a
Last(s) == s[Len(s)]

(***************************************************************************)
(* hollowing.py: functions                                                 *)
(***************************************************************************)
RECURSIVE interpolate_from(_, _, _)
interpolate_from(k, x_mm, stations) ==
    IF k > Len(stations) - 1 THEN <<>>
    ELSE LET x0 == stations[k][1]
             d0 == stations[k][2]
             x1 == stations[k + 1][1]
             d1 == stations[k + 1][2]
         IN  IF x0 <= x_mm /\ x_mm <= x1
             THEN <<d0 + ((x_mm - x0) * (d1 - d0)) \div (x1 - x0)>>
             ELSE interpolate_from(k + 1, x_mm, stations)

interpolate_dimension(x_mm, stations) == interpolate_from(1, x_mm, stations)

\* FAK * cos(pi * k / 24), k = 0..24
CosTab == <<1000, 991, 966, 924, 866, 793, 707, 609, 500, 383, 259, 131, 0,
            -131, -259, -383, -500, -609, -707, -793, -866, -924, -966, -991,
            -1000>>

\* sine_transition(t) for t = num/den; den divides 24 in every configuration
sine_transition(num, den) == (FAK - CosTab[((24 * num) \div den) + 1]) \div 2

RECURSIVE land_factor(_, _, _)
land_factor(k, x_mm, stegs) ==
    IF k > Len(stegs) THEN FAK
    ELSE LET steg_center == stegs[k]
             steg_l == steg_center - STEG_BREITE_MM \div 2
             steg_r == steg_center + STEG_BREITE_MM \div 2
             entry_l == steg_l - UEBERGANG_MM
             exit_r == steg_r + UEBERGANG_MM
         IN  IF steg_l <= x_mm /\ x_mm <= steg_r THEN 0
             ELSE IF entry_l <= x_mm /\ x_mm < steg_l
                  THEN FAK - sine_transition(x_mm - entry_l, UEBERGANG_MM)
             ELSE IF steg_r < x_mm /\ x_mm <= exit_r
                  THEN sine_transition(x_mm - steg_r, UEBERGANG_MM)
             ELSE land_factor(k + 1, x_mm, stegs)

compute_factor(x_mm, xt, stegs) ==
    LET butt_start == xt - BUTT_SOLID_MM
    IN  IF x_mm < TIP_SOLID_MM
        THEN IF x_mm < TIP_SOLID_MM - UEBERGANG_MM THEN 0
             ELSE sine_transition(x_mm - (TIP_SOLID_MM - UEBERGANG_MM), UEBERGANG_MM)
        ELSE IF x_mm > butt_start
        THEN IF x_mm > butt_start + UEBERGANG_MM THEN 0
             ELSE FAK - sine_transition(x_mm - butt_start, UEBERGANG_MM)
        ELSE land_factor(1, x_mm, stegs)

RECURSIVE steg_from(_, _)
steg_from(sx, hohl_end) ==
    IF sx < hohl_end THEN <<sx>> \o steg_from(sx + STEG_ABSTAND_MM, hohl_end)
    ELSE <<>>

compute_steg_positions(xt) ==
    LET hohl_start == TIP_SOLID_MM
        hohl_end == xt - BUTT_SOLID_MM
    IN  steg_from(hohl_start + STEG_ABSTAND_MM, hohl_end)


(***************************************************************************)
(* hollowing.py: the script, lines 127-203                                 *)
(***************************************************************************)
\* the loop without the clamp to x_total
ClampX_unclamped(xv) == xv

\* line 150: x = min(x, x_total)
ClampX(xv) == Min(xv, x_total)

\* lines 154-156: z of a sample from the interpolated dimension
SampleZ(xv, d) ==
    LET max_depth == Max(0, (d \div 2) - WANDSTAERKE_MM)
        factor == compute_factor(xv, x_total, steg_positions)
    IN  -(max_depth * factor)

\* the engagement test without its tolerance
Engaged_exact(z) == z < 0

\* line 181: z < -0.01
Engaged(z) == z < -(EPS * FAK)

\* format .3f of a position in mm, format .4f of a z (round to 0.0001 mm)
FmtX(xv) == xv * 1000
FmtZ(z) == IF z >= 0 THEN (z + 50) \div 100 ELSE -((-z + 50) \div 100)

\* lines 169-174 (G21, G90, G94, G0 Z safe, G0 X0)
Header == << [g |-> "G21"], [g |-> "G90"], [g |-> "G94"],
             [g |-> "G0", Z |-> Z_RAPID * 10], [g |-> "G0", X |-> 0] >>

\* lines 194-196
Footer == << [g |-> "G0", Z |-> Z_RAPID * 10], [g |-> "G0", X |-> 0],
             [g |-> "M2"] >>

\* lines 183-184
EngageLines(xv, z) ==
    << [g |-> "G0", X |-> FmtX(xv)],
       [g |-> "G1", Z |-> FmtZ(z), F |-> FEED_RATE] >>

\* an engaged sample while engaged positions again
CutLines_reposition(xv, z) ==
    << [g |-> "G0", X |-> FmtX(xv)],
       [g |-> "G1", Z |-> FmtZ(z), F |-> FEED_RATE] >>

\* line 187
CutLines(xv, z) ==
    << [g |-> "G1", X |-> FmtX(xv), Z |-> FmtZ(z), F |-> FEED_RATE] >>

\* line 190
CloseLines(xv, z) ==
    << [g |-> "G1", X |-> FmtX(xv), Z |-> FmtZ(z), F |-> FEED_RATE,
        note |-> "-> land/end"] >>

\* line 130
ComputeSteg ==
    /\ pc = "steg"
    /\ steg_positions' = compute_steg_positions(x_total)
    /\ pc' = "build"
    /\ UNCHANGED <<cfgvars, griffcfg, griffvars, x, dim, path, cutting, i,
                   lines, stdout, file>>

\* lines 150-153: the interpolator reports None, the loop breaks
BuildBreak ==
    /\ pc = "build"
    /\ interpolate_dimension(ClampX(x), stations_mm) = <<>>
    /\ x' = ClampX(x)
    /\ dim' = <<>>
    /\ pc' = "gen"
    /\ UNCHANGED <<cfgvars, griffcfg, griffvars, steg_positions, path, cutting,
                   i, lines, stdout, file>>

\* lines 150-160: a sample is appended and the loop goes on
BuildNext ==
    /\ pc = "build"
    /\ Len(path) < MaxPath
    /\ LET xc == ClampX(x)
           d == interpolate_dimension(xc, stations_mm)
       IN  /\ d # <<>>
           /\ xc < x_total
           /\ dim' = d
           /\ path' = Append(path, <<xc, SampleZ(xc, d[1])>>)
           /\ x' = xc + SCHRITT_MM
    /\ UNCHANGED <<cfgvars, griffcfg, griffvars, steg_positions, cutting, i,
                   lines, stdout, file, pc>>

\* lines 150-159: the sample at x_total is appended and the loop ends
BuildLast ==
    /\ pc = "build"
    /\ Len(path) < MaxPath
    /\ LET xc == ClampX(x)
           d == interpolate_dimension(xc, stations_mm)
       IN  /\ d # <<>>
           /\ xc >= x_total
           /\ dim' = d
           /\ path' = Append(path, <<xc, SampleZ(xc, d[1])>>)
           /\ x' = xc
    /\ pc' = "gen"
    /\ UNCHANGED <<cfgvars, griffcfg, griffvars, steg_positions, cutting, i,
                   lines, stdout, file>>

\* lines 163-179
GenHeader ==
    /\ pc = "gen"
    /\ lines' = Header
    /\ cutting' = FALSE
    /\ i' = 1
    /\ pc' = "emit"
    /\ UNCHANGED <<cfgvars, griffcfg, griffvars, steg_positions, x, dim, path,
                   stdout, file>>

\* lines 181-185
EmitEngage ==
    /\ pc = "emit" /\ i <= Len(path)
    /\ Engaged(path[i][2]) /\ ~cutting
    /\ lines' = lines \o EngageLines(path[i][1], path[i][2])
    /\ cutting' = TRUE
    /\ i' = i + 1
    /\ UNCHANGED <<cfgvars, griffcfg, griffvars, steg_positions, x, dim, path,
                   stdout, file, pc>>

\* lines 181, 186-187
EmitCut ==
    /\ pc = "emit" /\ i <= Len(path)
    /\ Engaged(path[i][2]) /\ cutting
    /\ lines' = lines \o CutLines(path[i][1], path[i][2])
    /\ i' = i + 1
    /\ UNCHANGED <<cfgvars, griffcfg, griffvars, steg_positions, x, dim, path,
                   cutting, stdout, file, pc>>

\* lines 188-191
EmitClose ==
    /\ pc = "emit" /\ i <= Len(path)
    /\ ~Engaged(path[i][2]) /\ cutting
    /\ lines' = lines \o CloseLines(path[i][1], path[i][2])
    /\ cutting' = FALSE
    /\ i' = i + 1
    /\ UNCHANGED <<cfgvars, griffcfg, griffvars, steg_positions, x, dim, path,
                   stdout, file, pc>>

\* lines 188-189: a retracted sample while retracted emits nothing
EmitSkip ==
    /\ pc = "emit" /\ i <= Len(path)
    /\ ~Engaged(path[i][2]) /\ ~cutting
    /\ i' = i + 1
    /\ UNCHANGED <<cfgvars, griffcfg, griffvars, steg_positions, x, dim, path,
                   cutting, lines, stdout, file, pc>>

\* lines 193-196
EmitFooter ==
    /\ pc = "emit" /\ i > Len(path)
    /\ lines' = lines \o Footer
    /\ pc' = "out"
    /\ UNCHANGED <<cfgvars, griffcfg, griffvars, steg_positions, x, dim, path,
                   cutting, i, stdout, file>>

\* lines 198-202: print(gcode) and write hollowing.ngc
Output ==
    /\ pc = "out"
    /\ stdout' = lines
    /\ file' = lines
    /\ pc' = "done"
    /\ UNCHANGED <<cfgvars, griffcfg, griffvars, steg_positions, x, dim, path,
                   cutting, i, lines>>


(***************************************************************************)
(* griff_generator.py: generate_turning, lines 60-145 and 193-206          *)
(***************************************************************************)
\* line 60
Z_FREIFAHRT == ROHLING_RADIUS + FRAESER_RADIUS + 2000

\* lines 64-71
z_for_radius(target_r) == target_r + FRAESER_RADIUS

\* lines 73-76
conical_radius(x_mm) ==
    RADIUS_TIP + ((x_mm - X_START_MM) * (RADIUS_BUTT - RADIUS_TIP)) \div GRIFF_LAENGE_MM

\* lines 100-103
target_radius ==
    IF GRIFFTYP = "zylindrisch" THEN ZIEL_RADIUS ELSE Min(RADIUS_TIP, RADIUS_BUTT)

\* lines 105-110: <<r>> is a roughing pass at fixed r, <<>> the finishing pass
RECURSIVE roughing_from(_, _)
roughing_from(r, target_r) ==
    IF r >= target_r + 500 THEN <<<<r>>>> \o roughing_from(r - 1000, target_r)
    ELSE << <<>> >>

build_roughing_steps == roughing_from(ROHLING_RADIUS - 1000, target_radius)

\* lines 125-128: radius commanded at x in a pass
pass_radius(fixed_r, x_mm) ==
    IF fixed_r # <<>> THEN fixed_r[1]
    ELSE IF GRIFFTYP = "konisch" THEN conical_radius(x_mm) ELSE ZIEL_RADIUS

\* line 132
TurnLine(x_mm, z, a) ==
    [g |-> "G1", X |-> FmtX(x_mm), Z |-> z * 10, A |-> a * 10, F |-> FEED_CUT]

\* lines 85-113
TurnStart ==
    /\ pc = "t_start"
    /\ lines' = << [g |-> "G21 G90 G94"], [g |-> "G0", Z |-> Z_FREIFAHRT * 10],
                   [g |-> "G0", X |-> 0, A |-> 0] >>
    /\ roughing_steps' = build_roughing_steps
    /\ a_total' = 0
    /\ pass' = 1
    /\ pc' = "t_pass"
    /\ UNCHANGED <<cfgvars, hollowvars, griffcfg, x>>

\* lines 115-121
TurnPassBegin ==
    /\ pc = "t_pass" /\ pass <= Len(roughing_steps)
    /\ lines' = lines \o << [g |-> "G0", Z |-> Z_FREIFAHRT * 10],
                            [g |-> "G0", X |-> FmtX(X_START_MM)] >>
    /\ x' = X_START_MM
    /\ pc' = "t_loop"
    /\ UNCHANGED <<cfgvars, hollowvars, griffcfg, griffvars>>

\* lines 123-136: one cutting move, the loop goes on
TurnStep ==
    /\ pc = "t_loop"
    /\ Len(lines) < MaxLines
    /\ LET xc == Min(x, X_START_MM + GRIFF_LAENGE_MM)
           z == z_for_radius(pass_radius(roughing_steps[pass], xc))
           a == a_total + 360 * rotations_per_mm * SCHRITT_MM
       IN  /\ xc < X_START_MM + GRIFF_LAENGE_MM
           /\ a_total' = a
           /\ lines' = Append(lines, TurnLine(xc, z, a))
           /\ x' = xc + SCHRITT_MM
    /\ UNCHANGED <<cfgvars, hollowvars, griffcfg, roughing_steps, pass, pc>>

\* lines 123-135: the cutting move at the end of the grip, the loop ends
TurnStepLast ==
    /\ pc = "t_loop"
    /\ Len(lines) < MaxLines
    /\ LET xc == Min(x, X_START_MM + GRIFF_LAENGE_MM)
           z == z_for_radius(pass_radius(roughing_steps[pass], xc))
           a == a_total + 360 * rotations_per_mm * SCHRITT_MM
       IN  /\ xc >= X_START_MM + GRIFF_LAENGE_MM
           /\ a_total' = a
           /\ lines' = Append(lines, TurnLine(xc, z, a))
           /\ x' = xc
    /\ pc' = "t_passend"
    /\ UNCHANGED <<cfgvars, hollowvars, griffcfg, roughing_steps, pass>>

\* lines 138-140
TurnPassEnd ==
    /\ pc = "t_passend"
    /\ lines' = lines \o << [g |-> "G0", Z |-> Z_FREIFAHRT * 10],
                            [g |-> "G0", X |-> FmtX(X_START_MM)] >>
    /\ pass' = pass + 1
    /\ pc' = "t_pass"
    /\ UNCHANGED <<cfgvars, hollowvars, griffcfg, roughing_steps, a_total, x>>

\* lines 142-145 and 201-206
TurnFinish ==
    /\ pc = "t_pass" /\ pass > Len(roughing_steps)
    /\ lines' = lines \o << [g |-> "G0", Z |-> Z_FREIFAHRT * 10],
                            [g |-> "G0", X |-> 0], [g |-> "M2"] >>
    /\ stdout' = lines'
    /\ file' = lines'
    /\ pc' = "t_done"
    /\ UNCHANGED <<cfgvars, griffcfg, griffvars, steg_positions, dim, path,
                   cutting, i, x>>

(***************************************************************************)
(* Configurations and specifications                                       *)
(***************************************************************************)
\* the shipped values of griff_generator.py scaled to a short grip
GriffIdle ==
    /\ GRIFFTYP = "polygon" /\ GRIFF_LAENGE_MM = 1 /\ X_START_MM = 0
    /\ ROHLING_RADIUS = 15000 /\ ZIEL_RADIUS = 10000
    /\ RADIUS_TIP = 8000 /\ RADIUS_BUTT = 13000
    /\ roughing_steps = <<>> /\ pass = 0 /\ a_total = 0

HollowRunInit ==
    /\ steg_positions = <<>> /\ x = 0 /\ dim = <<>> /\ path = <<>>
    /\ cutting = FALSE /\ i = 0 /\ lines = <<>> /\ stdout = <<>> /\ file = <<>>

\* taper tables: strictly increasing stations; a first station above 0 and a
\* strip too thin to hollow (dimension/2 <= wall) are among them
StationTables ==
    { << <<a, d[1]>>, <<b, d[2]>> >> :
        a \in {0, 2}, b \in (MaxTotal - 1)..MaxTotal,
        d \in { <<800, 800>>, <<3000, 5000>> } }
    \cup { << <<0, 1520>>, <<5, 1780>>, <<MaxTotal, 2030>> >> }

\* hollowing.py after lines 24-128 for a drawn configuration
Init ==
    /\ stations_mm \in StationTables
    /\ x_total = Last(stations_mm)[1]
    /\ TIP_SOLID_MM \in {0, 4}
    /\ BUTT_SOLID_MM \in {0, 3}
    /\ STEG_ABSTAND_MM \in {3, 5, 20}
    /\ STEG_BREITE_MM \in {2, 4}
    /\ UEBERGANG_MM \in {2, 4}
    /\ SCHRITT_MM \in {-1, 0, 1, 2, 5}
    /\ HollowRunInit
    /\ pc = "steg"
    /\ GriffIdle

Next ==
    \/ ComputeSteg
    \/ BuildBreak
    \/ BuildNext
    \/ BuildLast
    \/ GenHeader
    \/ EmitEngage
    \/ EmitCut
    \/ EmitClose
    \/ EmitSkip
    \/ EmitFooter
    \/ Output

Spec == Init /\ [][Next]_vars

\* the emitter alone, lines 163-203, on every sample sequence up to MaxSamples
ZChoices == {0, -5000, -10000, -10001, -800000}

SamplePaths ==
    UNION { [1..n -> ZChoices] : n \in 0..MaxSamples }

EmitInit ==
    /\ stations_mm = << <<0, 3000>>, <<MaxSamples, 3000>> >>
    /\ x_total = MaxSamples
    /\ TIP_SOLID_MM = 0 /\ BUTT_SOLID_MM = 0 /\ STEG_ABSTAND_MM = 20
    /\ STEG_BREITE_MM = 2 /\ UEBERGANG_MM = 2 /\ SCHRITT_MM = 1
    /\ steg_positions = <<>> /\ x = 0 /\ dim = <<3000>>
    /\ \E zs \in SamplePaths : path = [k \in 1..Len(zs) |-> <<k - 1, zs[k]>>]
    /\ cutting = FALSE /\ i = 0 /\ lines = <<>> /\ stdout = <<>> /\ file = <<>>
    /\ pc = "gen"
    /\ GriffIdle

EmitNext ==
    \/ GenHeader
    \/ EmitEngage
    \/ EmitCut
    \/ EmitClose
    \/ EmitSkip
    \/ EmitFooter
    \/ Output

EmitSpec == EmitInit /\ [][EmitNext]_vars

\* griff_generator.py before generate_turning is called; the blank is larger
\* than every finished radius
TurnInit ==
    /\ stations_mm = <<>> /\ x_total = 0
    /\ TIP_SOLID_MM = 0 /\ BUTT_SOLID_MM = 0 /\ STEG_ABSTAND_MM = 20
    /\ STEG_BREITE_MM = 2 /\ UEBERGANG_MM = 2
    /\ HollowRunInit
    /\ SCHRITT_MM \in {0, 1, 2}
    /\ GRIFFTYP \in {"zylindrisch", "konisch"}
    /\ GRIFF_LAENGE_MM \in 3..4
    /\ X_START_MM \in {0, 1}
    /\ ROHLING_RADIUS \in {14000, 15000}
    /\ ZIEL_RADIUS \in {10000, 10500}
    /\ RADIUS_TIP \in {8000, 13000}
    /\ RADIUS_BUTT \in {8000, 13000}
    /\ roughing_steps = <<>> /\ pass = 0 /\ a_total = 0
    /\ pc = "t_start"

TurnNext ==
    \/ TurnStart
    \/ TurnPassBegin
    \/ TurnStep
    \/ TurnStepLast
    \/ TurnPassEnd
    \/ TurnFinish

TurnSpec == TurnInit /\ [][TurnNext]_vars


(***************************************************************************)
(* Reading an emitted hollowing program                                    *)
(***************************************************************************)
Emitting == pc \in {"emit", "out", "done"}
Built == pc \in {"gen", "emit", "out", "done"}

\* the lines the milling pass appended, between Header and Footer
PassLines ==
    IF Len(lines) < Len(Header) THEN <<>>
    ELSE SubSeq(lines, Len(Header) + 1,
                IF pc \in {"out", "done"} THEN Len(lines) - Len(Footer)
                ELSE Len(lines))

IsRapid(l) == l.g = "G0"
IsLinear(l) == l.g = "G1"
IsPositioning(l) == l.g = "G0" /\ "X" \in DOMAIN l
IsMotion(l) == l.g \in {"G0", "G1"}

Kind(l) ==
    IF IsPositioning(l) THEN "position"
    ELSE IF IsLinear(l) /\ "X" \notin DOMAIN l THEN "engage"
    ELSE IF IsLinear(l) /\ "note" \in DOMAIN l THEN "closing"
    ELSE IF IsLinear(l) /\ "X" \in DOMAIN l /\ "Z" \in DOMAIN l THEN "combined"
    ELSE "other"

\* sample k of the path is engaged: its depth is below -0.01 mm
SampleEngaged(k) == path[k][2] < -10000
\* the emitter's state before sample k (RETRACTED before the first)
EngagedBefore(k) == k > 1 /\ SampleEngaged(k - 1)

\* what the transition at sample k must emit: <<kind, X word>> pairs
TransitionMoves(k) ==
    LET xw == path[k][1] * 1000
    IN  IF SampleEngaged(k) /\ ~EngagedBefore(k)
        THEN << <<"position", xw>>, <<"engage", -1>> >>
        ELSE IF SampleEngaged(k) THEN << <<"combined", xw>> >>
        ELSE IF EngagedBefore(k) THEN << <<"closing", xw>> >>
        ELSE <<>>

RECURSIVE ExpectedMoves(_)
ExpectedMoves(n) ==
    IF n = 0 THEN <<>> ELSE ExpectedMoves(n - 1) \o TransitionMoves(n)

MoveOf(l) == <<Kind(l), IF "X" \in DOMAIN l THEN l.X ELSE -1>>

Engagements(n) == {k \in 1..n : SampleEngaged(k) /\ ~EngagedBefore(k)}
Positionings == {k \in 1..Len(PassLines) : IsPositioning(PassLines[k])}

\* C1: from RETRACTED, after any number of samples, the pass holds exactly: a
\* positioning move then an engage move for each RETRACTED->ENGAGED sample, one
\* combined linear move for each ENGAGED->ENGAGED sample, one closing move for
\* each ENGAGED->RETRACTED sample, nothing for RETRACTED->RETRACTED; so the
\* positioning moves of the pass number the RETRACTED->ENGAGED transitions.
C1_EmitterTransitions ==
    Emitting =>
        /\ [k \in 1..Len(PassLines) |-> MoveOf(PassLines[k])] = ExpectedMoves(i - 1)
        /\ Cardinality(Positionings) = Cardinality(Engagements(i - 1))
        /\ cutting = (i > 1 /\ SampleEngaged(i - 1))

\* a finished pass with all four transitions, the first engagement after a
\* retracted sample
C1_Witness ==
    /\ pc = "done" /\ Len(path) = 4
    /\ ~SampleEngaged(1) /\ SampleEngaged(2) /\ SampleEngaged(3) /\ ~SampleEngaged(4)
    /\ Len(PassLines) = 4

\* Z word in effect before line k of the program (absolute mode, G90)
RECURSIVE ZBefore(_)
ZBefore(k) ==
    IF k <= 1 THEN -1
    ELSE IF "Z" \in DOMAIN lines[k - 1] THEN lines[k - 1].Z
    ELSE ZBefore(k - 1)

\* C2: every positioning move of the pass (first engagement and every
\* re-engagement after a glue land) is made with the tool at safe height
\* Z_RAPID, the engage move following it.
C2_PositioningAtSafeHeight ==
    Emitting =>
        \A k \in (Len(Header) + 1)..Len(lines) :
            (IsPositioning(lines[k]) /\ (k <= Len(Header) + Len(PassLines)))
                => /\ ZBefore(k) = Z_RAPID * 10
                   /\ k < Len(lines) /\ Kind(lines[k + 1]) = "engage"

EasingStepBound == (1571 \div UEBERGANG_MM) + 2

\* C4: for every zone configuration the mask has no jump: between adjacent
\* positions 1 mm apart it changes by no more than the easing allows.
C4_MaskContinuous ==
    pc # "steg" =>
        \A xx \in 0..(x_total - 1) :
            Abs(compute_factor(xx + 1, x_total, steg_positions)
                - compute_factor(xx, x_total, steg_positions)) <= EasingStepBound

\* C5: the mask is 0 on the closed interval of every preserve zone, the
\* terminal zones [0, tip] and [total - butt, total] included, and the easing
\* lies outside: with no interior zone mask(tip) = 0, mask(tip + w) = 1 and
\* the mask does not decrease on [tip, tip + w].
C5_MaskZeroInsideZones ==
    (pc # "steg" /\ TIP_SOLID_MM > 0 /\ BUTT_SOLID_MM > 0) =>
        /\ \A xx \in 0..TIP_SOLID_MM :
               compute_factor(xx, x_total, steg_positions) = 0
        /\ \A xx \in (x_total - BUTT_SOLID_MM)..x_total :
               compute_factor(xx, x_total, steg_positions) = 0
        /\ (steg_positions = <<>> /\ TIP_SOLID_MM + UEBERGANG_MM <= x_total - BUTT_SOLID_MM) =>
               /\ compute_factor(TIP_SOLID_MM + UEBERGANG_MM, x_total, steg_positions) = FAK
               /\ \A xx \in TIP_SOLID_MM..(TIP_SOLID_MM + UEBERGANG_MM - 1) :
                      compute_factor(xx, x_total, steg_positions)
                          <= compute_factor(xx + 1, x_total, steg_positions)

\* C6: once the interpolator has reported out-of-range to the sampling loop,
\* no directive is produced and nothing is printed or written.
C6_OutOfRangeAborts ==
    (Built /\ dim = <<>>) => (lines = <<>> /\ stdout = <<>> /\ file = <<>>)

\* C7: with a zero or negative step no sample and no directive is produced.
C7_BadStepRejected ==
    SCHRITT_MM <= 0 => (path = <<>> /\ lines = <<>> /\ stdout = <<>> /\ file = <<>>)

AllSuppressed == \A k \in 1..Len(path) : path[k][2] >= -10000

\* C8 as stated: an all-suppressed profile gives a stream of exactly two
\* motion directives, one initial rapid and one final retract, none linear.
C8_TwoDirectivesOnly ==
    (pc = "done" /\ AllSuppressed) =>
        /\ Len(SelectSeq(stdout, IsLinear)) = 0
        /\ Len(SelectSeq(stdout, IsMotion)) = 2

\* C8 amended: an all-suppressed profile gives no linear move and nothing in
\* the pass; the program is the preamble with its two rapids (to safe height,
\* to X0) followed by the closing retract to safe height, the rapid home to X0
\* and the program end.
C8_PreambleAndClosingOnly ==
    (pc = "done" /\ AllSuppressed) =>
        /\ Len(SelectSeq(stdout, IsLinear)) = 0
        /\ PassLines = <<>>
        /\ SelectSeq(stdout, IsMotion) =
               << [g |-> "G0", Z |-> Z_RAPID * 10], [g |-> "G0", X |-> 0],
                  [g |-> "G0", Z |-> Z_RAPID * 10], [g |-> "G0", X |-> 0] >>
        /\ Last(stdout) = [g |-> "M2"]
        /\ file = stdout

\* a finished program for a profile whose samples are all suppressed, some
\* of them with a depth that is not zero
C8_Witness ==
    /\ pc = "done" /\ AllSuppressed /\ Len(path) >= 3
    /\ \E k \in 1..Len(path) : path[k][2] < 0

\* C9: every glue land placed by compute_steg_positions has its interior
\* [center - width/2, center + width/2] strictly between tip_length and
\* total_length - butt_length.
C9_LandsClearOfTerminalZones ==
    pc # "steg" =>
        \A k \in 1..Len(steg_positions) :
            /\ TIP_SOLID_MM < steg_positions[k] - STEG_BREITE_MM \div 2
            /\ steg_positions[k] + STEG_BREITE_MM \div 2 < x_total - BUTT_SOLID_MM

\* radius the finishing pass commands at x (lines 128)
ContourRadius(x_mm) ==
    IF GRIFFTYP = "konisch" THEN conical_radius(x_mm) ELSE ZIEL_RADIUS

\* C10: no cutting move of generate_turning commands at its X a radius below
\* the radius of the finishing contour at that X.
C10_RoughingKeepsContour ==
    \A k \in 1..Len(lines) :
        IsLinear(lines[k]) =>
            lines[k].Z >= 10 * z_for_radius(ContourRadius(lines[k].X \div 1000))

====
